---- MODULE Spec2Model ----
(***************************************************************************)
(* Model of pymuscle's PotvinMuscleFibers (potvin_muscle_fibers.py).       *)
(*                                                                         *)
(* Numbers.  The program computes with float64 ndarrays.  Here a real x is *)
(* the integer x * ONE (fixed point, six decimals); np.exp, np.log and     *)
(* np.power are computed by series on that grid, products and quotients    *)
(* are rounded towards zero.                                               *)
(*                                                                         *)
(* Arrays.  An ndarray is an object: `heap` maps an array reference to its *)
(* contents and the attributes of a pool hold references, so that two      *)
(* attributes bound to the same ndarray see each other's in-place updates. *)
(***************************************************************************)
EXTENDS Integers, Sequences, FiniteSets, TLC

(* ------------------------------ bounds --------------------------------- *)
\* Largest motor_unit_count a pool is constructed with.
MaxUnits == 3
\* Largest number of fatigue updates applied to one pool in a run.
MaxFatigueUpdates == 1

(* ------------------------- fixed-point reals --------------------------- *)
ONE == 10^6
HALF == ONE \div 2
Kilo == 10^3
\* ln 2 on the grid (np.log)
LN2 == 693147
\* number of series terms used by Exp and Ln
SeriesTerms == 10

Abs(a) == IF a < 0 THEN -a ELSE a
Sgn(a) == IF a < 0 THEN -1 ELSE 1
Max(a, b) == IF a >= b THEN a ELSE b

\* a * b for a, b >= 0, without leaving 32 bits
MulNat(a, b) ==
    LET a1 == a \div Kilo
        a0 == a % Kilo
        b1 == b \div Kilo
        b0 == b % Kilo
    IN  a1 * b1 + (a1 * b0 + a0 * b1 + (a0 * b0) \div Kilo) \div Kilo

\* ndarray * ndarray, one element
Mul(a, b) == Sgn(a) * Sgn(b) * MulNat(Abs(a), Abs(b))

RECURSIVE DivDigits(_, _, _, _)
DivDigits(r, b, n, acc) ==
    IF n = 0 THEN acc
    ELSE DivDigits((r * 10) % b, b, n - 1, acc * 10 + (r * 10) \div b)

\* a / b for a >= 0, b > 0
DivNat(a, b) == (a \div b) * ONE + DivDigits(a % b, b, 6, 0)

\* ndarray / ndarray, one element (b # 0)
Div(a, b) == Sgn(a) * Sgn(b) * DivNat(Abs(a), Abs(b))

\* ndarray / n for a whole number n > 0, one element
DivInt(a, n) == Sgn(a) * (Abs(a) \div n)

\* exp(t) for 0 <= t <= 1/2: 1 + t/1 (1 + t/2 (1 + t/3 ( ... )))
RECURSIVE ExpSeries(_, _)
ExpSeries(t, k) ==
    IF k > SeriesTerms THEN ONE
    ELSE ONE + MulNat(t, ExpSeries(t, k + 1)) \div k

Square(a) == MulNat(a, a)

\* exp(y), y >= 0
RECURSIVE ExpNat(_)
ExpNat(y) ==
    IF y <= HALF THEN ExpSeries(y, 1) ELSE Square(ExpNat(y \div 2))

\* exp(-y) is below the grid (exp(-14) < 10^-6) from here on
ExpUnderflow == 14 * ONE

\* exp(-y), y >= 0; underflows to 0 as np.exp does for large y
RECURSIVE ExpNeg(_)
ExpNeg(y) ==
    IF y >= ExpUnderflow THEN 0
    ELSE IF y <= HALF THEN DivNat(ONE, ExpSeries(y, 1))
    ELSE Square(ExpNeg(y \div 2))

\* np.exp
Exp(y) == IF y >= 0 THEN ExpNat(y) ELSE ExpNeg(-y)

\* z + z^3/3 + z^5/5 + ... ; zp is z^k, k odd
RECURSIVE AtanhSeries(_, _, _)
AtanhSeries(zz, zp, k) ==
    IF k > 2 * SeriesTerms \/ zp = 0 THEN 0
    ELSE zp \div k + AtanhSeries(zz, MulNat(zz, zp), k + 2)

\* ln(m) for 1 <= m < 2: 2 atanh((m - 1) / (m + 1))
LnMantissa(m) ==
    LET z == DivNat(m - ONE, m + ONE)
    IN  2 * AtanhSeries(MulNat(z, z), z, 1)

\* np.log, a > 0
RECURSIVE Ln(_)
Ln(a) ==
    IF a >= 2 * ONE THEN LN2 + Ln(a \div 2)
    ELSE IF a < ONE THEN Ln(2 * a) - LN2
    ELSE LnMantissa(a)

\* np.power(base, e), base > 0
Power(base, e) == Exp(Mul(e, Ln(base)))

(* ------------------------------ inputs --------------------------------- *)
\* The two pool objects of a run, constructed with the same parameters.
Pools == {1, 2}

\* Constructor defaults (impulses, milliseconds and factors, as reals).
default_max_twitch_amplitude == 100
default_max_contraction_time == 90
default_contraction_time_range == 3
default_fatigability_range == 180
default_step_size == ONE \div 10

\* Valid configurations (unit_count >= 2, amplitude > 1, contraction time > 0,
\* contraction_time_range > 1, fatigue factor >= 0, fatigability_range >= 1).
Configs ==
    [ motor_unit_count          : 2 .. MaxUnits,
      max_twitch_amplitude      : {default_max_twitch_amplitude * ONE},
      max_contraction_time      : {default_max_contraction_time * ONE},
      contraction_time_range    : {default_contraction_time_range * ONE},
      fatigue_factor_first_unit : {0, 2 * ONE},
      fatigability_range        : {ONE, default_fatigability_range * ONE} ]

\* Firing rates in impulses per second.
Rates == {0, 4 * ONE, 5 * ONE, 50 * ONE}

\* Firing-rate vectors: every unit at rate r0 except unit j at rate r1.
FiringRateVectors(n) ==
    { [i \in 1 .. n |-> IF i = j THEN r1 ELSE r0] :
        j \in 1 .. n, r0 \in Rates, r1 \in Rates }

\* Firing-rate vectors that drive a fatigue update: all units at one rate,
\* slow (unit 1 alone above the threshold) or fast (every unit saturated).
FatigueDrives(n) == { [i \in 1 .. n |-> r] : r \in {5 * ONE, 50 * ONE} }

StepSizes == {default_step_size, 2 * ONE}

(* ------------------------------- state --------------------------------- *)
VARIABLES
    config,            \* the constructor arguments of the pools
    heap,              \* ndarray reference -> contents
    pool,              \* pool -> its attributes (array attributes are references)
    constructed,       \* pool -> the arrays as they were derived by __init__
    fatigue_updates,   \* pool -> number of fatigue updates applied to it
    call               \* the last operation: its arguments and return value

vars == <<config, heap, pool, constructed, fatigue_updates, call>>

Units(arr) == 1 .. Len(arr)

(* ---------------------- construction-time arrays ----------------------- *)
\* np.exp(np.log(amplitude) * (k - 1) / (n - 1)), k = 1 .. n
_calc_peak_twitch_forces(motor_unit_count, max_twitch_amplitude) ==
    LET t_log == Ln(max_twitch_amplitude)
    IN  [k \in 1 .. motor_unit_count |->
            Exp((t_log * (k - 1)) \div (motor_unit_count - 1))]

\* Variant: 1 / peak replaced by peak in the contraction-time ramp.
_calc_contraction_times_inverted(max_twitch_amplitude, max_contraction_time, contraction_time_range, peak_twitch_forces) ==
    LET scale    == Div(Ln(max_twitch_amplitude), Ln(contraction_time_range))
        exponent == Div(ONE, scale)
    IN  [k \in Units(peak_twitch_forces) |->
            Mul(max_contraction_time, Power(peak_twitch_forces[k], exponent))]

\* max_contraction_time * np.power(1 / peak, 1 / scale)
_calc_contraction_times(max_twitch_amplitude, max_contraction_time, contraction_time_range, peak_twitch_forces) ==
    LET scale    == Div(Ln(max_twitch_amplitude), Ln(contraction_time_range))
        exponent == Div(ONE, scale)
    IN  [k \in Units(peak_twitch_forces) |->
            Mul(max_contraction_time,
                Power(Div(ONE, peak_twitch_forces[k]), exponent))]

\* fatigue_factor_first_unit * np.exp(np.log(range) * (k - 1) / (n - 1))
_calc_nominal_fatigabilities(motor_unit_count, fatigability_range, fatigue_factor_first_unit) ==
    LET f_log == Ln(fatigability_range)
    IN  [k \in 1 .. motor_unit_count |->
            Mul(fatigue_factor_first_unit,
                Exp((f_log * (k - 1)) \div (motor_unit_count - 1)))]

\* Arrays and attributes of a pool, given the references of its four arrays.
PoolObject(cfg, peak_ref, current_ref, ct_ref, fat_ref) ==
    LET peak == _calc_peak_twitch_forces(cfg.motor_unit_count,
                                         cfg.max_twitch_amplitude)
        ct   == _calc_contraction_times(cfg.max_twitch_amplitude,
                                        cfg.max_contraction_time,
                                        cfg.contraction_time_range, peak)
        fat  == _calc_nominal_fatigabilities(cfg.motor_unit_count,
                                             cfg.fatigability_range,
                                             cfg.fatigue_factor_first_unit)
    IN  [ arrays |-> (peak_ref :> peak) @@ (current_ref :> peak)
                       @@ (ct_ref :> ct) @@ (fat_ref :> fat),
          self   |-> [ _peak_twitch_forces        |-> peak_ref,
                       _current_twitch_forces     |-> current_ref,
                       _contraction_times         |-> ct_ref,
                       _current_contraction_times |-> ct_ref,
                       _nominal_fatigabilities    |-> fat_ref,
                       motor_unit_count           |-> cfg.motor_unit_count ] ]

\* Variant: _current_twitch_forces is bound to a copy of the peak array.
__init__copy(p, cfg) ==
    PoolObject(cfg, <<p, "peak">>, <<p, "current">>, <<p, "ct">>, <<p, "fat">>)

\* Variant: the arrays are allocated once and shared by every pool.
__init__shared(p, cfg) ==
    PoolObject(cfg, <<1, "peak">>, <<1, "peak">>, <<1, "ct">>, <<1, "fat">>)

\* __init__ of pool p: the arrays it allocates and the attributes it binds.
\* _current_twitch_forces is bound to the array object of _peak_twitch_forces,
\* _current_contraction_times to the one of _contraction_times.
__init__(p, cfg) ==
    PoolObject(cfg, <<p, "peak">>, <<p, "peak">>, <<p, "ct">>, <<p, "fat">>)

(* ------------------------------ step path ------------------------------ *)
linear_threshold == 400000
linear_gain == 300000

\* (firing_rates / 1000) * self._current_contraction_times
_normalize_firing_rates_w_fatigue(self, firing_rates) ==
    [i \in Units(firing_rates) |->
        Mul(DivInt(firing_rates[i], Kilo),
            heap[self._current_contraction_times][i])]

\* Variant: the saturating branch without the "1 -".
_calc_normalized_forces_decay(normalized_firing_rates) ==
    [i \in Units(normalized_firing_rates) |->
        LET x == normalized_firing_rates[i]
        IN  IF x <= linear_threshold
            THEN Mul(x, linear_gain)
            ELSE Exp(-2 * Mul(Mul(x, x), x))]

\* Variant: the saturating branch with its operands swapped.
_calc_normalized_forces_swapped(normalized_firing_rates) ==
    [i \in Units(normalized_firing_rates) |->
        LET x == normalized_firing_rates[i]
        IN  IF x <= linear_threshold
            THEN Mul(x, linear_gain)
            ELSE Exp(-2 * Mul(Mul(x, x), x)) - ONE]

\* 0.3 x up to the threshold, 1 - exp(-2 x^3) above it
_calc_normalized_forces(normalized_firing_rates) ==
    [i \in Units(normalized_firing_rates) |->
        LET x == normalized_firing_rates[i]
        IN  IF x <= linear_threshold
            THEN Mul(x, linear_gain)
            ELSE ONE - Exp(-2 * Mul(Mul(x, x), x))]

\* normalized_forces * self._peak_twitch_forces
_calc_inst_forces(self, normalized_forces) ==
    [i \in Units(normalized_forces) |->
        Mul(normalized_forces[i], heap[self._peak_twitch_forces][i])]

\* normalized_forces * self._current_twitch_forces
_calc_current_forces(self, normalized_forces) ==
    [i \in Units(normalized_forces) |->
        Mul(normalized_forces[i], heap[self._current_twitch_forces][i])]

\* normalized_forces * self._nominal_fatigabilities
_calc_inst_fatigues(self, normalized_forces) ==
    [i \in Units(normalized_forces) |->
        Mul(normalized_forces[i], heap[self._nominal_fatigabilities][i])]

RECURSIVE SumUpTo(_, _)
SumUpTo(arr, n) == IF n = 0 THEN 0 ELSE arr[n] + SumUpTo(arr, n - 1)

\* np.sum(inst_forces)
_calc_total_inst_force(inst_forces) == SumUpTo(inst_forces, Len(inst_forces))

_calc_total_fiber_force(self, firing_rates) ==
    _calc_total_inst_force(
        _calc_inst_forces(self,
            _calc_normalized_forces(
                _normalize_firing_rates_w_fatigue(self, firing_rates))))

\* the value step() returns
step(self, motor_pool_output, step_size) ==
    _calc_total_fiber_force(self, motor_pool_output)

(* ---------------------------- fatigue path ----------------------------- *)
\* Variant: the negative entries are not zeroed.
_apply_fatigue_unclamped(self, inst_fatigues, step_size) ==
    [heap EXCEPT ![self._current_twitch_forces] =
        [i \in Units(@) |-> @[i] - Mul(step_size, inst_fatigues[i])]]

\* Variant: += in place of -=.
_apply_fatigue_added(self, inst_fatigues, step_size) ==
    [heap EXCEPT ![self._current_twitch_forces] =
        [i \in Units(@) |-> Max(0, @[i] + Mul(step_size, inst_fatigues[i]))]]

\* Variant: the fatigue of the first unit is subtracted from every unit.
_apply_fatigue_first(self, inst_fatigues, step_size) ==
    [heap EXCEPT ![self._current_twitch_forces] =
        [i \in Units(@) |-> Max(0, @[i] - Mul(step_size, inst_fatigues[1]))]]

\* The heap after  self._current_twitch_forces -= step_size * inst_fatigues
\* and the zeroing of the negative entries, both done in place.
_apply_fatigue(self, inst_fatigues, step_size) ==
    [heap EXCEPT ![self._current_twitch_forces] =
        [i \in Units(@) |-> Max(0, @[i] - Mul(step_size, inst_fatigues[i]))]]

(* ------------------------------ actions -------------------------------- *)
Init ==
    /\ config \in Configs
    /\ heap = [r \in UNION {DOMAIN __init__(p, config).arrays : p \in Pools} |->
                  __init__(r[1], config).arrays[r]]
    /\ pool = [p \in Pools |-> __init__(p, config).self]
    /\ constructed =
          [p \in Pools |->
              [ peak_twitch_force    |-> heap[pool[p]._peak_twitch_forces],
                contraction_time     |-> heap[pool[p]._contraction_times],
                nominal_fatigability |-> heap[pool[p]._nominal_fatigabilities] ]]
    /\ fatigue_updates = [p \in Pools |-> 0]
    /\ call = [op |-> "init"]

\* Variant: step() also applies the fatigue of the forces it computed.
StepAppliesFatigue(p, firing_rates, step_size) ==
    /\ call' = [ op |-> "step", pool |-> p, firing_rates |-> firing_rates,
                 step_size |-> step_size,
                 ret |-> step(pool[p], firing_rates, step_size) ]
    /\ heap' = _apply_fatigue(pool[p],
                   _calc_inst_fatigues(pool[p],
                       _calc_normalized_forces(
                           _normalize_firing_rates_w_fatigue(pool[p], firing_rates))),
                   step_size)
    /\ UNCHANGED <<config, pool, constructed, fatigue_updates>>

\* pool p: step(firing_rates, step_size)
Step(p, firing_rates, step_size) ==
    /\ call' = [ op |-> "step", pool |-> p, firing_rates |-> firing_rates,
                 step_size |-> step_size,
                 ret |-> step(pool[p], firing_rates, step_size) ]
    /\ UNCHANGED <<config, heap, pool, constructed, fatigue_updates>>

\* pool p: the fatigue update for the forces the units produce at firing_rates
UpdateFatigue(p, firing_rates, step_size) ==
    /\ fatigue_updates[p] < MaxFatigueUpdates
    /\ LET normalized_forces ==
               _calc_normalized_forces(
                   _normalize_firing_rates_w_fatigue(pool[p], firing_rates))
           inst_fatigues == _calc_inst_fatigues(pool[p], normalized_forces)
       IN  /\ heap' = _apply_fatigue(pool[p], inst_fatigues, step_size)
           /\ call' = [ op |-> "fatigue", pool |-> p,
                        firing_rates |-> firing_rates, step_size |-> step_size,
                        normalized_forces |-> normalized_forces ]
    /\ fatigue_updates' = [fatigue_updates EXCEPT ![p] = @ + 1]
    /\ UNCHANGED <<config, pool, constructed>>

\* One pool is driven: any step, any fatigue update.
Next ==
    \E step_size \in StepSizes :
        \/ \E firing_rates \in FiringRateVectors(config.motor_unit_count) :
               Step(1, firing_rates, step_size)
        \/ \E firing_rates \in FatigueDrives(config.motor_unit_count) :
               UpdateFatigue(1, firing_rates, step_size)

Spec == Init /\ [][Next]_vars

\* Both pools are driven, each with the same choice of inputs.
NextPools ==
    \E p \in Pools, step_size \in StepSizes :
        \E firing_rates \in FatigueDrives(config.motor_unit_count) :
            \/ Step(p, firing_rates, step_size)
            \/ UpdateFatigue(p, firing_rates, step_size)

SpecPools == Init /\ [][NextPools]_vars

(* ---------------------- attributes, by their value --------------------- *)
peak_twitch_force(p) == heap[pool[p]._peak_twitch_forces]
current_twitch_force(p) == heap[pool[p]._current_twitch_forces]
contraction_time(p) == heap[pool[p]._contraction_times]
current_contraction_time(p) == heap[pool[p]._current_contraction_times]
nominal_fatigability(p) == heap[pool[p]._nominal_fatigabilities]

\* the normalized force of each unit of pool p at firing_rates
NormalizedForces(p, firing_rates) ==
    _calc_normalized_forces(
        _normalize_firing_rates_w_fatigue(pool[p], firing_rates))

StrictlyIncreasing(arr) == \A i \in 1 .. Len(arr) - 1 : arr[i] < arr[i + 1]
StrictlyDecreasing(arr) == \A i \in 1 .. Len(arr) - 1 : arr[i] > arr[i + 1]

\* no element of a is larger than the same element of b
NoLarger(a, b) == \A i \in Units(a) : a[i] <= b[i]

\* b is a with the rate of exactly one unit raised
RaisesOneUnit(a, b) ==
    \E j \in Units(a) : b[j] > a[j] /\ \A i \in Units(a) \ {j} : b[i] = a[i]

(* ------------------------------- claims -------------------------------- *)

\* C1: after construction and after any steps and fatigue updates,
\* peak_twitch_force, contraction_time and nominal_fatigability of every pool
\* still hold the values derived at construction.
C1_ConstructionArraysFixed ==
    \A p \in Pools :
        /\ peak_twitch_force(p) = constructed[p].peak_twitch_force
        /\ contraction_time(p) = constructed[p].contraction_time
        /\ nominal_fatigability(p) = constructed[p].nominal_fatigability

C3_StepHasNoSideEffect ==
    [][call'.op = "step" =>
          /\ heap' = heap
          /\ pool' = pool
          /\ (call.op = "step" /\ call.pool = call'.pool
                /\ call.firing_rates = call'.firing_rates)
             => call'.ret = call.ret]_vars

\* C3 witness: a step with a non-default step size that returned a positive
\* force, on a pool that was stepped with its arrays still as constructed.
C3_Witness ==
    /\ call.op = "step"
    /\ call.step_size # default_step_size
    /\ call.ret > 0
    /\ fatigue_updates[call.pool] = 0
    /\ current_twitch_force(call.pool) = constructed[call.pool].peak_twitch_force

\* C4: in every reachable state 0 <= current_twitch_force[i] <= the capacity
\* of unit i derived at construction.
C4_CapacityWithinBounds ==
    \A p \in Pools : \A i \in Units(current_twitch_force(p)) :
        /\ 0 <= current_twitch_force(p)[i]
        /\ current_twitch_force(p)[i] <= constructed[p].peak_twitch_force[i]

\* C4 witness: after a fatigue update one unit is exhausted (capacity 0) and
\* another has a capacity strictly between 0 and its peak.
C4_Witness ==
    /\ call.op = "fatigue"
    /\ \E i, j \in Units(current_twitch_force(call.pool)) :
          /\ current_twitch_force(call.pool)[i] = 0
          /\ current_twitch_force(call.pool)[j] > 0
          /\ current_twitch_force(call.pool)[j]
                < constructed[call.pool].peak_twitch_force[j]

\* C5: current_twitch_force starts equal to the peak capacities (checked on
\* the first operation after construction) and no operation leaves any unit's
\* capacity larger than it was before.
C5_CapacityNonIncreasing ==
    [][/\ call.op = "init" =>
             \A p \in Pools :
                 current_twitch_force(p) = constructed[p].peak_twitch_force
       /\ pool' = pool
       /\ heap' # heap =>
             \A p \in Pools :
                 NoLarger(heap'[pool[p]._current_twitch_forces],
                          heap[pool[p]._current_twitch_forces])]_vars

\* C5 witness: a fatigue update has strictly lowered the capacity of a unit.
C5_Witness ==
    /\ call.op = "fatigue"
    /\ fatigue_updates[call.pool] > 0
    /\ \E i \in Units(current_twitch_force(call.pool)) :
          current_twitch_force(call.pool)[i]
              < constructed[call.pool].peak_twitch_force[i]

\* The total force of a pool whose arrays are as derived at construction.
ConstructedForce(p, firing_rates) ==
    SumUpTo(
        [i \in Units(firing_rates) |->
            Mul(_calc_normalized_forces(
                    [k \in Units(firing_rates) |->
                        Mul(DivInt(firing_rates[k], Kilo),
                            constructed[p].contraction_time[k])])[i],
                constructed[p].peak_twitch_force[i])],
        Len(firing_rates))

\* C6: two pools constructed with the same parameters and only stepped return
\* the same total force for the same firing rates, and what a step on a pool
\* returns does not depend on the operations performed on the other pool.
C6_PoolsDeterministicAndIndependent ==
    /\ \A p, q \in Pools :
          (fatigue_updates[p] = 0 /\ fatigue_updates[q] = 0) =>
              \A firing_rates \in FatigueDrives(config.motor_unit_count) :
                  \A step_size \in StepSizes :
                      step(pool[p], firing_rates, step_size)
                          = step(pool[q], firing_rates, step_size)
    /\ (call.op = "step" /\ fatigue_updates[call.pool] = 0) =>
          call.ret = ConstructedForce(call.pool, call.firing_rates)

\* C6 witness: a pool that was only ever stepped is stepped after the other
\* pool's capacities were lowered by fatigue updates.
C6_Witness ==
    /\ call.op = "step"
    /\ call.ret > 0
    /\ fatigue_updates[call.pool] = 0
    /\ \E q \in Pools \ {call.pool} :
          /\ fatigue_updates[q] > 0
          /\ current_twitch_force(q) # constructed[q].peak_twitch_force

\* C7: of two consecutive steps on a pool whose firing rates differ in one
\* unit only, the one with the larger rate returns no smaller a total force.
C7_StepMonotone ==
    [][(/\ call.op = "step"
        /\ call'.op = "step"
        /\ call'.pool = call.pool
        /\ RaisesOneUnit(call.firing_rates, call'.firing_rates))
       => call'.ret >= call.ret]_vars

\* C7 witness: a step in which unit 1 fires at 5 impulses/s, its normalized
\* rate above the threshold, where at 4 impulses/s it is on the linear branch.
C7_Witness ==
    /\ call.op = "step"
    /\ call.firing_rates[1] = 5 * ONE
    /\ _normalize_firing_rates_w_fatigue(pool[call.pool],
                                         call.firing_rates)[1] > linear_threshold
    /\ _normalize_firing_rates_w_fatigue(pool[call.pool],
           [call.firing_rates EXCEPT ![1] = 4 * ONE])[1] <= linear_threshold
    /\ call.ret > step(pool[call.pool],
                       [call.firing_rates EXCEPT ![1] = 4 * ONE],
                       call.step_size)

\* C8: a step with non-negative firing rates returns a non-negative total
\* force, and a step with all rates zero returns 0.
C8_StepNonNegative ==
    (call.op = "step" /\ \A i \in Units(call.firing_rates) :
                            call.firing_rates[i] >= 0) =>
        /\ call.ret >= 0
        /\ (\A i \in Units(call.firing_rates) : call.firing_rates[i] = 0)
              => call.ret = 0

\* C8 witness: a step with saturating rates on a pool with an exhausted unit.
C8_Witness ==
    /\ call.op = "step"
    /\ call.ret > 0
    /\ \A i \in Units(call.firing_rates) : call.firing_rates[i] = 50 * ONE
    /\ \E i \in Units(call.firing_rates) : current_twitch_force(call.pool)[i] = 0

====
